---- MODULE Spec2Model ----
(***************************************************************************)
(* Model of the weather forecasting pipeline of                            *)
(* src/weather_forcast/forecast.py: validate_data, load_data,              *)
(* make_features, train_model and predict_days, as operators applied by    *)
(* one action each, and main as the sequence of its statements; and of the *)
(* orders and shipping costs of src/refactoring/refactoring_task before    *)
(* and after the refactoring.                                              *)
(*                                                                         *)
(* Numbers.  Readings are kept in tenths (temperature 1.6 is 16, humidity  *)
(* 40 is 400, pressure 998.1 is 9981), so that every comparison of the     *)
(* code is an integer comparison.  A timestamp is a day number.  A missing *)
(* value (numpy.nan) is the integer NaN, and every comparison with it is   *)
(* false, as in IEEE arithmetic.                                           *)
(*                                                                         *)
(* A table (pandas.DataFrame) is a record                                  *)
(*   columns : the set of column names                                     *)
(*   index   : the sequence of index values (RangeIndex 1..n for a table   *)
(*             read from CSV, the timestamps after set_index('time'))      *)
(*   rows    : the sequence of rows, each a function columns -> value      *)
(*   src     : for each row, the line of the CSV file it was read from     *)
(*             (a history field: pandas does not store it)                 *)
(*                                                                         *)
(* The timestamps of the model are well-formed dates (pd.to_datetime does  *)
(* not raise), every year has 365 days, and sines and cosines are kept as  *)
(* thousandths rounded to the nearest integer.                             *)
(*                                                                         *)
(* The specifications share the variables and the actions:                 *)
(*   Spec          load_data, then predict_days, over files of distinct    *)
(*                 timestamps, complete and incomplete model sets and      *)
(*                 horizons from -1 up                                     *)
(*   SpecValidate  validate_data and load_data over files with a column    *)
(*                 absent, values at and outside the bounds, and missing   *)
(*                 values                                                  *)
(*   SpecFeatures  load_data, make_features, one reading replaced, and     *)
(*                 make_features again, over files in any order of the     *)
(*                 timestamps, repeated timestamps included                *)
(*   SpecDirect    make_features on the DataFrames a caller builds itself  *)
(*                 (as the tests do): rows in any order, a column lat with *)
(*                 a missing value, and tables longer than the window      *)
(*   SpecSeasonal  load_data and make_features over files of two readings  *)
(*                 on any day of a year and into the next                  *)
(*   SpecMain      the runs of main, one after another on the same file,   *)
(*                 over valid and invalid files, stored model sets, flags  *)
(*                 and states of the global random generator               *)
(*   SpecTrain     the runs of main on valid files of four to six lines,   *)
(*                 repeated timestamps included                            *)
(*   SpecShop      add_item on the order of the original and of the        *)
(*                 refactored code, and the totals, shipping costs and     *)
(*                 loyalty discounts of both                               *)
(***************************************************************************)
EXTENDS Integers, Sequences, FiniteSets, TLC

VARIABLES
    csv,           \* the table stored in the CSV file at path_to_csv
    models,        \* the model set handed to predict_days
    days,          \* days_ahead
    alpha,         \* the confidence level (in hundredths) of the last call or of the command line
    df,            \* the table last returned by load_data, or NoTable
    features,      \* the table last returned by make_features, or NoTable
    featuresIn,    \* the argument of that call of make_features
    prevFeatures,  \* the result of the call of make_features before it
    prevIn,        \* the argument of the call of make_features before it
    forecast,      \* the rows last returned by predict_days, or NoForecast
    prevForecast,  \* the rows returned by the call of predict_days before it
    argsBefore,    \* <<model, latest_rows_df, days_ahead, alpha>> as they were before that call
    prevArgs,      \* the arguments of the call of predict_days before it
    steps,         \* the feature row and the model inputs of each day of that call
    error,         \* the exception the last operation raised, or NoError
    last,          \* the last operation performed
    \* main (forecast.py) and the files it reads and writes
    retrain,       \* args.retrain
    pc,            \* the statement of main that runs next
    modelsDir,     \* the files of the directory models/, or NoDir
    forecastCsv,   \* the content of forecast.csv, or NoFile
    trace,         \* the calls made so far in this run of main
    rng,           \* the state of numpy's global random generator
    trainedModels, \* the model set last returned by train_model
    prevTrained,   \* the model set returned by the call of train_model before it
    \* the two versions of the shop (refactoring_task)
    customer_type, \* the type of the customer
    itemsBefore,   \* Order.items of the original code: one entry per unit
    itemsAfter,    \* Order.items of the refactored code: OrderItems
    calls,         \* the calls of add_item made: <<product, quantity>>
    shipping,      \* the costs last computed by the two ShippingCalculators
    totals,        \* the totals last computed by the two Orders
    discount       \* the loyalty discounts last computed by the two versions

mainVars == <<retrain, pc, modelsDir, forecastCsv, trace, rng, trainedModels, prevTrained>>

shopVars == <<customer_type, itemsBefore, itemsAfter, calls, shipping, totals, discount>>

weatherVars == <<csv, models, days, alpha, df, features, featuresIn, prevFeatures, prevIn,
                 forecast, prevForecast, argsBefore, prevArgs, steps, error, last>>

vars == <<weatherVars, mainVars, shopVars>>

-----------------------------------------------------------------------------
(* Bounds of the model *)

MaxValRows == 2

MaxRows == 3

MaxTime == 3

MaxDays == 2

MaxSeasonDay == 430

MaxRng == 1

MaxCalls == 2

MaxQuantity == 2

-----------------------------------------------------------------------------
(* Constants of the program *)

TARGETS == <<"temperature", "humidity", "pressure">>

ROLES == <<"lower", "pred", "upper">>

NaN == -999999

TemperatureMin == 16

TemperatureMax == 206

HumidityMin == 400

HumidityMax == 960

PressureMin == 9981

PressureMax == 10327

NoError == "none"

NoTable == [columns |-> {}, index |-> <<>>, rows |-> <<>>, src |-> <<>>, none |-> TRUE]

NoForecast == <<"no forecast">>

-----------------------------------------------------------------------------
(* Helpers on sequences and tables *)

Range(s) == {s[i] : i \in 1..Len(s)}

RECURSIVE SeqsUpTo(_, _)
SeqsUpTo(S, n) ==
    IF n = 0 THEN {<<>>}
    ELSE LET shorter == SeqsUpTo(S, n - 1)
         IN  shorter \cup {Append(s, x) : s \in {t \in shorter : Len(t) = n - 1}, x \in S}

isnull(v) == v = NaN

(* a comparison of series values: false whenever a side is missing *)
Lt(a, b) == ~isnull(a) /\ ~isnull(b) /\ a < b

Gt(a, b) == ~isnull(a) /\ ~isnull(b) /\ a > b

Column(t, c) == [i \in 1..Len(t.rows) |-> t.rows[i][c]]

any(s) == \E i \in 1..Len(s) : s[i]

IsTable(t) == "none" \notin DOMAIN t

-----------------------------------------------------------------------------
(* validate_data *)

required_columns == <<"time">> \o TARGETS

RequiredColumnsForgetTime(t) == SelectSeq(TARGETS, LAMBDA col : col \notin t.columns)

missing_columns(t) == SelectSeq(required_columns, LAMBDA col : col \notin t.columns)

OutOfRangeOrAtBound(t, col, lo, hi) ==
    \/ any([i \in 1..Len(t.rows) |-> Lt(t.rows[i][col], lo + 1)])
    \/ any([i \in 1..Len(t.rows) |-> Gt(t.rows[i][col], hi - 1)])

(* (df[col] < lo).any() or (df[col] > hi).any() *)
OutOfRange(t, col, lo, hi) ==
    \/ any([i \in 1..Len(t.rows) |-> Lt(t.rows[i][col], lo)])
    \/ any([i \in 1..Len(t.rows) |-> Gt(t.rows[i][col], hi)])

ValidateColumnsOnly(t) ==
    IF missing_columns(t) # <<>> THEN "ValueError: Missing required columns" ELSE NoError

(* the exception validate_data raises on table t, or NoError *)
validate_data(t) ==
    IF missing_columns(t) # <<>> THEN "ValueError: Missing required columns"
    ELSE IF OutOfRange(t, "temperature", TemperatureMin, TemperatureMax)
         THEN "ValueError: Temperature values out of observed range"
    ELSE IF OutOfRange(t, "humidity", HumidityMin, HumidityMax)
         THEN "ValueError: Humidity values out of observed range"
    ELSE IF OutOfRange(t, "pressure", PressureMin, PressureMax)
         THEN "ValueError: Pressure values out of observed range"
    ELSE NoError

-----------------------------------------------------------------------------
(* load_data *)

Perms(n) == {p \in [1..n -> 1..n] : \A i, j \in 1..n : i # j => p[i] # p[j]}

(* the row orders sort_index may produce: ascending by index value; the     *)
(* default sort is not stable, so rows of equal index come in any order    *)
SortOrders(index) ==
    {p \in Perms(Len(index)) :
        \A i, j \in 1..Len(index) : i < j => index[p[i]] <= index[p[j]]}

Reorder(s, p) == [i \in 1..Len(s) |-> s[p[i]]]

(* df['time'] = pd.to_datetime(df['time']); df.set_index('time') *)
set_index_time(t) ==
    [columns |-> t.columns \ {"time"},
     index   |-> Column(t, "time"),
     rows    |-> [i \in 1..Len(t.rows) |-> [c \in t.columns \ {"time"} |-> t.rows[i][c]]],
     src     |-> t.src]

sort_index(t, order) ==
    [columns |-> t.columns,
     index   |-> Reorder(t.index, order),
     rows    |-> Reorder(t.rows, order),
     src     |-> Reorder(t.src, order)]

(* df.isnull().any().any(): a missing value in any column of any row *)
HasNullColumn(t) == \E c \in t.columns : \A i \in 1..Len(t.rows) : isnull(t.rows[i][c])

HasNull(t) == \E i \in 1..Len(t.rows) : \E c \in t.columns : isnull(t.rows[i][c])

(* load_data on the file holding table t, order the row order the sort     *)
(* produces: the exception raised (or NoError) and the table returned      *)
load_data(t, order) ==
    LET v == validate_data(t) IN
    IF v # NoError THEN [error |-> v, df |-> NoTable]
    ELSE IF "time" \notin t.columns THEN [error |-> "KeyError", df |-> NoTable]
    ELSE LET indexed == sort_index(set_index_time(t), order) IN
         IF HasNull(indexed)
         THEN [error |-> "ValueError: Input data contains missing values", df |-> NoTable]
         ELSE [error |-> NoError, df |-> indexed]

-----------------------------------------------------------------------------
(* Calendar: day 1 is 1 January 2025, a Wednesday; every year of the model   *)
(* has 365 days                                                            *)

DaysInYear == 365

MonthsInYear == 12

WINDOW == 7

FirstDay == 59

CumulativeDays == <<0, 31, 59, 90, 120, 151, 181, 212, 243, 273, 304, 334, 365>>

day_of_year(t) == ((t - 1) % DaysInYear) + 1

MonthOfDay == [d \in 1..DaysInYear |->
                  CHOOSE m \in 1..MonthsInYear :
                      CumulativeDays[m] < d /\ d <= CumulativeDays[m + 1]]

month(t) == MonthOfDay[day_of_year(t)]

day_of_week(t) == (t + 1) % 7

(* numpy.sin and numpy.cos of 2*pi*k/12 and of 2*pi*k/365, times 1000 and   *)
(* rounded to the nearest integer                                          *)
SinMonthTable == <<
    500, 866, 1000, 866, 500, 0, -500, -866, -1000, -866, -500, 0>>

CosMonthTable == <<
    866, 500, 0, -500, -866, -1000, -866, -500, 0, 500, 866, 1000>>

SinDayTable == <<
    17, 34, 52, 69, 86, 103, 120, 137, 154, 171, 188, 205, 222, 239, 255, 272,
    288, 305, 321, 338, 354, 370, 386, 401, 417, 433, 448, 464, 479, 494, 509, 523,
    538, 552, 567, 581, 595, 608, 622, 635, 649, 662, 674, 687, 699, 712, 724, 735,
    747, 758, 769, 780, 791, 801, 812, 821, 831, 841, 850, 859, 867, 876, 884, 892,
    900, 907, 914, 921, 928, 934, 940, 946, 951, 956, 961, 966, 970, 974, 978, 981,
    984, 987, 990, 992, 994, 996, 997, 998, 999, 1000, 1000, 1000, 1000, 999, 998, 997,
    995, 993, 991, 989, 986, 983, 980, 976, 972, 968, 963, 959, 954, 948, 943, 937,
    931, 924, 918, 911, 903, 896, 888, 880, 872, 863, 854, 845, 836, 826, 817, 806,
    796, 786, 775, 764, 753, 741, 730, 718, 706, 693, 681, 668, 655, 642, 629, 615,
    602, 588, 574, 560, 545, 531, 516, 501, 486, 471, 456, 441, 425, 409, 394, 378,
    362, 346, 329, 313, 297, 280, 264, 247, 230, 214, 197, 180, 163, 146, 129, 112,
    95, 77, 60, 43, 26, 9, -9, -26, -43, -60, -77, -95, -112, -129, -146, -163,
    -180, -197, -214, -230, -247, -264, -280, -297, -313, -329, -346, -362, -378, -394, -409, -425,
    -441, -456, -471, -486, -501, -516, -531, -545, -560, -574, -588, -602, -615, -629, -642, -655,
    -668, -681, -693, -706, -718, -730, -741, -753, -764, -775, -786, -796, -806, -817, -826, -836,
    -845, -854, -863, -872, -880, -888, -896, -903, -911, -918, -924, -931, -937, -943, -948, -954,
    -959, -963, -968, -972, -976, -980, -983, -986, -989, -991, -993, -995, -997, -998, -999, -1000,
    -1000, -1000, -1000, -999, -998, -997, -996, -994, -992, -990, -987, -984, -981, -978, -974, -970,
    -966, -961, -956, -951, -946, -940, -934, -928, -921, -914, -907, -900, -892, -884, -876, -867,
    -859, -850, -841, -831, -821, -812, -801, -791, -780, -769, -758, -747, -735, -724, -712, -699,
    -687, -674, -662, -649, -635, -622, -608, -595, -581, -567, -552, -538, -523, -509, -494, -479,
    -464, -448, -433, -417, -401, -386, -370, -354, -338, -321, -305, -288, -272, -255, -239, -222,
    -205, -188, -171, -154, -137, -120, -103, -86, -69, -52, -34, -17, 0>>

CosDayTable == <<
    1000, 999, 999, 998, 996, 995, 993, 991, 988, 985, 982, 979, 975, 971, 967, 962,
    957, 952, 947, 941, 935, 929, 923, 916, 909, 902, 894, 886, 878, 870, 861, 852,
    843, 834, 824, 814, 804, 794, 783, 772, 761, 750, 738, 727, 715, 703, 690, 678,
    665, 652, 639, 625, 612, 598, 584, 570, 556, 542, 527, 512, 498, 483, 467, 452,
    437, 421, 405, 390, 374, 358, 342, 325, 309, 293, 276, 260, 243, 226, 209, 192,
    176, 159, 142, 124, 107, 90, 73, 56, 39, 22, 4, -13, -30, -47, -65, -82,
    -99, -116, -133, -150, -167, -184, -201, -218, -234, -251, -268, -284, -301, -317, -333, -350,
    -366, -382, -398, -413, -429, -444, -460, -475, -490, -505, -520, -534, -549, -563, -577, -591,
    -605, -619, -632, -645, -658, -671, -684, -696, -709, -721, -732, -744, -755, -767, -778, -788,
    -799, -809, -819, -829, -838, -848, -857, -865, -874, -882, -890, -898, -905, -912, -919, -926,
    -932, -938, -944, -950, -955, -960, -965, -969, -973, -977, -980, -984, -987, -989, -992, -994,
    -996, -997, -998, -999, -1000, -1000, -1000, -1000, -999, -998, -997, -996, -994, -992, -989, -987,
    -984, -980, -977, -973, -969, -965, -960, -955, -950, -944, -938, -932, -926, -919, -912, -905,
    -898, -890, -882, -874, -865, -857, -848, -838, -829, -819, -809, -799, -788, -778, -767, -755,
    -744, -732, -721, -709, -696, -684, -671, -658, -645, -632, -619, -605, -591, -577, -563, -549,
    -534, -520, -505, -490, -475, -460, -444, -429, -413, -398, -382, -366, -350, -333, -317, -301,
    -284, -268, -251, -234, -218, -201, -184, -167, -150, -133, -116, -99, -82, -65, -47, -30,
    -13, 4, 22, 39, 56, 73, 90, 107, 124, 142, 159, 176, 192, 209, 226, 243,
    260, 276, 293, 309, 325, 342, 358, 374, 390, 405, 421, 437, 452, 467, 483, 498,
    512, 527, 542, 556, 570, 584, 598, 612, 625, 639, 652, 665, 678, 690, 703, 715,
    727, 738, 750, 761, 772, 783, 794, 804, 814, 824, 834, 843, 852, 861, 870, 878,
    886, 894, 902, 909, 916, 923, 929, 935, 941, 947, 952, 957, 962, 967, 971, 975,
    979, 982, 985, 988, 991, 993, 995, 996, 998, 999, 999, 1000, 1000>>

Unit == 1000

TwoPi == 6283

AngleOfMonth(m) == (TwoPi * m) \div MonthsInYear

(* line 110: np.sin(2 * np.pi * df['month'] / 12) *)
sin_month(m) == SinMonthTable[m]

cos_month(m) == CosMonthTable[m]

sin_day(d) == SinDayTable[d]

cos_day(d) == CosDayTable[d]

-----------------------------------------------------------------------------
(* make_features *)

RollingMeanCol == [temperature |-> "temperature_rolling_mean_7d",
                   humidity    |-> "humidity_rolling_mean_7d",
                   pressure    |-> "pressure_rolling_mean_7d"]

RollingStdCol == [temperature |-> "temperature_rolling_std_7d",
                  humidity    |-> "humidity_rolling_std_7d",
                  pressure    |-> "pressure_rolling_std_7d"]

RollingMinCol == [temperature |-> "temperature_rolling_min_7d",
                  humidity    |-> "humidity_rolling_min_7d",
                  pressure    |-> "pressure_rolling_min_7d"]

RollingMaxCol == [temperature |-> "temperature_rolling_max_7d",
                  humidity    |-> "humidity_rolling_max_7d",
                  pressure    |-> "pressure_rolling_max_7d"]

LagCol == [temperature |-> "temperature_lag_1",
           humidity    |-> "humidity_lag_1",
           pressure    |-> "pressure_lag_1"]

TargetSet == Range(TARGETS)

CalendarCols == {"month", "day_of_year", "day_of_week"}

SeasonalCols == {"sin_month", "cos_month", "sin_day", "cos_day"}

RollingCols == {RollingMeanCol[c] : c \in TargetSet} \cup {RollingStdCol[c] : c \in TargetSet}
               \cup {RollingMinCol[c] : c \in TargetSet} \cup {RollingMaxCol[c] : c \in TargetSet}

LagCols == {LagCol[c] : c \in TargetSet}

(* the target a rolling or lag column is computed from *)
TargetOf(name) == CHOOSE c \in TargetSet :
    name \in {RollingMeanCol[c], RollingStdCol[c], RollingMinCol[c], RollingMaxCol[c], LagCol[c]}

(* A mean is kept as 420 times its value and a standard deviation as 420    *)
(* times its square (the sample variance): 420 is the least common         *)
(* multiple of the counts n and of the products n(n-1) for n <= WINDOW, so  *)
(* both are integers, and equal numbers stand for equal statistics.        *)
MeanScale == 420

CenteredWindow(i, n) ==
    (IF i > 3 THEN i - 3 ELSE 1)..(IF i + 3 < n THEN i + 3 ELSE n)

ExpandingWindow(i, n) == 1..i

(* rolling(window=7): the positions of the window of row i of n rows *)
WindowPositions(i, n) == (IF i > WINDOW THEN i - WINDOW + 1 ELSE 1)..i

(* the observations of the window: pandas leaves missing values out *)
Observations(s, i) == {k \in WindowPositions(i, Len(s)) : ~isnull(s[k])}

RECURSIVE SumOver(_, _)
SumOver(s, K) ==
    IF K = {} THEN 0
    ELSE LET k == CHOOSE x \in K : TRUE IN s[k] + SumOver(s, K \ {k})

Squares(s) == [k \in 1..Len(s) |-> s[k] * s[k]]

min_periods == 1

rolling_mean(s, i) ==
    LET K == Observations(s, i)  n == Cardinality(K) IN
    IF n < min_periods THEN NaN ELSE (SumOver(s, K) * MeanScale) \div n

(* the sample variance (ddof=1) of the window, on the differences from its   *)
(* first observation: the variance does not depend on the shift             *)
rolling_std(s, i) ==
    LET K == Observations(s, i)  n == Cardinality(K) IN
    IF n < min_periods \/ n < 2 THEN NaN
    ELSE LET first == CHOOSE k \in K : \A j \in K : k <= j
             d     == [k \in 1..Len(s) |-> IF k \in K THEN s[k] - s[first] ELSE 0]
         IN  (n * SumOver(Squares(d), K) - SumOver(d, K) * SumOver(d, K))
                 * (MeanScale \div (n * (n - 1)))

rolling_min(s, i) ==
    LET K == Observations(s, i) IN
    IF Cardinality(K) < min_periods THEN NaN
    ELSE CHOOSE v \in {s[k] : k \in K} : \A w \in {s[k] : k \in K} : v <= w

rolling_max(s, i) ==
    LET K == Observations(s, i) IN
    IF Cardinality(K) < min_periods THEN NaN
    ELSE CHOOSE v \in {s[k] : k \in K} : \A w \in {s[k] : k \in K} : v >= w

ShiftNext(s, i) == IF i = Len(s) THEN NaN ELSE s[i + 1]

(* Series.shift(1): the value of the row before, missing on the first row *)
shift(s, i) == IF i = 1 THEN NaN ELSE s[i - 1]

(* which statistic a column assigned by lines 105-127 holds *)
KindOf == [name \in CalendarCols \cup SeasonalCols \cup RollingCols \cup LagCols |->
              IF name \in CalendarCols \cup SeasonalCols THEN name
              ELSE IF name = RollingMeanCol[TargetOf(name)] THEN "rolling_mean"
              ELSE IF name = RollingStdCol[TargetOf(name)] THEN "rolling_std"
              ELSE IF name = RollingMinCol[TargetOf(name)] THEN "rolling_min"
              ELSE IF name = RollingMaxCol[TargetOf(name)] THEN "rolling_max"
              ELSE "lag"]

SourceOf == [name \in RollingCols \cup LagCols |-> TargetOf(name)]

(* the value lines 105-127 assign to column name of row i of table t *)
FeatureValue(t, name, i) ==
    LET kind == KindOf[name] IN
    CASE kind = "month"        -> month(t.index[i])
      [] kind = "day_of_year"  -> day_of_year(t.index[i])
      [] kind = "day_of_week"  -> day_of_week(t.index[i])
      [] kind = "sin_month"    -> sin_month(month(t.index[i]))
      [] kind = "cos_month"    -> cos_month(month(t.index[i]))
      [] kind = "sin_day"      -> sin_day(day_of_year(t.index[i]))
      [] kind = "cos_day"      -> cos_day(day_of_year(t.index[i]))
      [] kind = "rolling_mean" -> rolling_mean(Column(t, SourceOf[name]), i)
      [] kind = "rolling_std"  -> rolling_std(Column(t, SourceOf[name]), i)
      [] kind = "rolling_min"  -> rolling_min(Column(t, SourceOf[name]), i)
      [] kind = "rolling_max"  -> rolling_max(Column(t, SourceOf[name]), i)
      [] kind = "lag"          -> shift(Column(t, SourceOf[name]), i)

AssignedCols == CalendarCols \cup SeasonalCols \cup RollingCols \cup LagCols

(* lines 105-127: the column assignments, made in place on table t.  Every  *)
(* assigned column is computed from the index and the target columns only, *)
(* which the assignments do not change.                                    *)
AssignFeatureColumns(t) ==
    [t EXCEPT !.columns = t.columns \cup AssignedCols,
              !.rows = [i \in 1..Len(t.rows) |->
                           [c \in t.columns \cup AssignedCols |->
                               IF c \in AssignedCols THEN FeatureValue(t, c, i)
                               ELSE t.rows[i][c]]]]

(* DataFrame.drop(cols, axis=1): a new table without the columns *)
drop(t, cols) ==
    [t EXCEPT !.columns = t.columns \ cols,
              !.rows = [i \in 1..Len(t.rows) |-> [c \in t.columns \ cols |-> t.rows[i][c]]]]

RECURSIVE KeepRows(_, _, _)
KeepRows(t, keep, i) ==
    IF i > Len(t.rows) THEN [t EXCEPT !.index = <<>>, !.rows = <<>>, !.src = <<>>]
    ELSE LET rest == KeepRows(t, keep, i + 1) IN
         IF i \in keep
         THEN [rest EXCEPT !.index = <<t.index[i]>> \o @,
                           !.rows  = <<t.rows[i]>> \o @,
                           !.src   = <<t.src[i]>> \o @]
         ELSE rest

NoDropna(t) == t

(* DataFrame.dropna(): a new table of the rows without any missing value *)
dropna(t) ==
    KeepRows(t, {i \in 1..Len(t.rows) : \A c \in t.columns : ~isnull(t.rows[i][c])}, 1)

(* An object reference: which object, and the table it holds now *)
NoCopy(ref) == ref

(* DataFrame.copy(): a new object holding the same table *)
copy(ref) == [obj |-> "copy of " \o ref.obj, table |-> ref.table]

MakeFeaturesRejectsEmpty(d) ==
    [features |-> IF Len(d.rows) = 0 THEN NoTable
                  ELSE dropna(drop(AssignFeatureColumns(d), CalendarCols)),
     df       |-> d]

(* make_features(df): the table returned, and the caller's df as the call   *)
(* leaves it                                                               *)
make_features(d) ==
    LET arg      == [obj |-> "df", table |-> d]
        new      == copy(arg)
        assigned == AssignFeatureColumns(new.table)
        dropped  == drop(assigned, CalendarCols)
    IN  [features |-> dropna(dropped),
         df       |-> IF new.obj = arg.obj THEN assigned ELSE d]

-----------------------------------------------------------------------------
(* The estimators.  A fitted GradientBoostingRegressor is a function of the *)
(* feature row it is given; the model takes it from a small family: the     *)
(* value of one feature column (or zero) plus an offset.                    *)

Estimator(feat, off) == [feat |-> feat, off |-> off]

(* estimator.predict(pred_features)[0] *)
predict(est, x) == (IF est.feat = "const" THEN 0 ELSE x[est.feat]) + est.off

PredCol == [temperature |-> "temperature_pred", humidity |-> "humidity_pred",
            pressure    |-> "pressure_pred"]

LowCol == [temperature |-> "temperature_low", humidity |-> "humidity_low",
           pressure    |-> "pressure_low"]

HighCol == [temperature |-> "temperature_high", humidity |-> "humidity_high",
            pressure    |-> "pressure_high"]

PointCols == {"target_date"} \cup {PredCol[c] : c \in TargetSet}
             \cup {LowCol[c] : c \in TargetSet} \cup {HighCol[c] : c \in TargetSet}

(* the target a column of a forecast row belongs to *)
PointTarget == [name \in PointCols \ {"target_date"} |->
                   CHOOSE c \in TargetSet : name \in {PredCol[c], LowCol[c], HighCol[c]}]

-----------------------------------------------------------------------------
(* predict_days *)

(* the default of alpha (line 260, line 309), in hundredths *)
DefaultAlpha == 90

(* model[target][role] exists for every target and role the loop body reads *)
HasAllEstimators(model) ==
    \A target \in TargetSet :
        /\ target \in DOMAIN model
        /\ \A role \in Range(ROLES) : role \in DOMAIN model[target]

TargetDateSameDay(lastTime, day) == lastTime + day

(* line 293: latest_rows_df.index[-1] + timedelta(days=day + 1) *)
TargetDate(lastTime, day) == lastTime + day + 1

(* line 287: current_features.drop(TARGETS, axis=1) *)
pred_features(current) == [c \in (DOMAIN current) \ TargetSet |-> current[c]]

DayPredictionsAlphaShrinks(model, current, lastTime, day, level) ==
    [name \in PointCols |->
        IF name = "target_date" THEN TargetDate(lastTime, day)
        ELSE LET target == PointTarget[name] IN
             IF name = PredCol[target]
             THEN predict(model[target]["pred"], pred_features(current))
             ELSE IF name = LowCol[target]
             THEN predict(model[target]["lower"], pred_features(current))
             ELSE predict(model[target]["upper"], pred_features(current))
                  - (level - DefaultAlpha)]

DayPredictionsReordered(model, current, lastTime, day, level) ==
    [name \in PointCols |->
        IF name = "target_date" THEN TargetDate(lastTime, day)
        ELSE LET target == PointTarget[name]
                 pred   == predict(model[target]["pred"], pred_features(current))
                 lower  == predict(model[target]["lower"], pred_features(current))
                 upper  == predict(model[target]["upper"], pred_features(current))
             IN  IF name = PredCol[target] THEN pred
                 ELSE IF name = LowCol[target]
                 THEN (IF lower <= pred THEN lower ELSE pred)
                 ELSE (IF upper >= pred THEN upper ELSE pred)]

(* lines 284-294: the forecast row of one day from the feature row current; *)
(* no statement of the body reads the level (alpha)                        *)
DayPredictions(model, current, lastTime, day, level) ==
    [name \in PointCols |->
        IF name = "target_date" THEN TargetDate(lastTime, day)
        ELSE LET target == PointTarget[name] IN
             IF name = PredCol[target]
             THEN predict(model[target]["pred"], pred_features(current))
             ELSE IF name = LowCol[target]
             THEN predict(model[target]["lower"], pred_features(current))
             ELSE predict(model[target]["upper"], pred_features(current))]

UpdateLagsFromLow(current, day_predictions) ==
    [c \in DOMAIN current |->
        IF c \in LagCols THEN day_predictions[LowCol[SourceOf[c]]] ELSE current[c]]

UpdateLagsAndRollingMeans(current, day_predictions) ==
    [c \in DOMAIN current |->
        IF c \in LagCols THEN day_predictions[PredCol[SourceOf[c]]]
        ELSE IF c \in {RollingMeanCol[t] : t \in TargetSet}
        THEN day_predictions[PredCol[SourceOf[c]]] * MeanScale
        ELSE current[c]]

(* lines 299-300: the lag fields take the central predictions *)
UpdateLags(current, day_predictions) ==
    [c \in DOMAIN current |->
        IF c \in LagCols THEN day_predictions[PredCol[SourceOf[c]]] ELSE current[c]]

(* lines 281-300: the loop from day on; predictions holds the rows appended *)
(* so far, and taken the feature row of each day so far with the input each *)
(* target's estimators were given.  A missing estimator raises KeyError     *)
(* when the body reads it.                                                  *)
RECURSIVE Rollout(_, _, _, _, _, _, _, _)
Rollout(model, current, lastTime, day, days_ahead, level, predictions, taken) ==
    IF day >= days_ahead
    THEN [error |-> NoError, forecast |-> predictions, steps |-> taken]
    ELSE IF ~HasAllEstimators(model)
    THEN [error |-> "KeyError", forecast |-> NoForecast, steps |-> <<>>]
    ELSE LET day_predictions == DayPredictions(model, current, lastTime, day, level)
             step == [current_features |-> current,
                      pred_features    |-> [target \in TargetSet |-> pred_features(current)]]
         IN  Rollout(model, UpdateLags(current, day_predictions), lastTime, day + 1,
                     days_ahead, level, Append(predictions, day_predictions),
                     Append(taken, step))

(* predict_days(model, latest_rows_df, days_ahead, alpha): the exception     *)
(* raised, the rows of the table returned, the steps taken, and the two    *)
(* arguments as the call leaves them                                       *)
predict_days(model, latest_rows_df, days_ahead, level) ==
    LET made == make_features(latest_rows_df)
        n    == Len(made.features.rows)
    IN  IF n = 0
        THEN [error |-> "IndexError", forecast |-> NoForecast, steps |-> <<>>,
              model |-> model, latest_rows_df |-> made.df]
        ELSE LET current_features == made.features.rows[n]
                 lastTime == latest_rows_df.index[Len(latest_rows_df.index)]
                 out == Rollout(model, current_features, lastTime, 0, days_ahead, level,
                                <<>>, <<>>)
             IN  [error |-> out.error, forecast |-> out.forecast, steps |-> out.steps,
                  model |-> model, latest_rows_df |-> made.df]

(* a model set is a record; so are the values that stand for none *)
NoDir == [directory |-> FALSE]

NoFile == <<"no file">>

-----------------------------------------------------------------------------
(* train_model, load_trained_models.  GradientBoostingRegressor.fit is      *)
(* modelled inside the family of estimators above: the estimator it        *)
(* returns follows one lag column, the one its random generator picks,     *)
(* plus the statistic of the loss over the residuals of the training rows  *)
(* (their mean for squared_error, their least and greatest for the         *)
(* quantiles 0.1 and 0.9).  Fitting no row raises ValueError.  The metrics *)
(* train_model also returns and saves are left out.                        *)

None == [none |-> TRUE]

NotTrained == [trained |-> FALSE]

random_state == 42

SeedFromGlobalState(globalState) == globalState

(* sklearn's check_random_state(random_state) with MODEL_PARAMS: an integer *)
(* seeds a generator of its own, whatever the state of the global one      *)
check_random_state(globalState) == random_state

(* line 174: int(len(features) * 0.8) *)
train_size(n) == (n * 8) \div 10

MinOf(S) == CHOOSE v \in S : \A w \in S : v <= w

GreatestOf(S) == CHOOSE v \in S : \A w \in S : v >= w

(* lines 29-34; learning_rate in hundredths *)
MODEL_PARAMS ==
    [n_estimators |-> 200, max_depth |-> 5, learning_rate |-> 10, random_state |-> random_state]

(* GradientBoostingRegressor(loss, alpha, **MODEL_PARAMS).fit(X, y): the    *)
(* fitted estimator keeps its parameters and the columns it was fitted on  *)
(* (feature_names_in_)                                                     *)
fit(loss, quantile, X, y, globalState) ==
    LET feat      == LagCol[TARGETS[(check_random_state(globalState) % Len(TARGETS)) + 1]]
        residuals == [i \in 1..Len(X) |-> y[i] - X[i][feat]]
        off       == IF loss = "squared_error"
                     THEN SumOver(residuals, 1..Len(X)) \div Len(X)
                     ELSE IF quantile < 50 THEN MinOf(Range(residuals))
                     ELSE GreatestOf(Range(residuals))
    IN  [feat |-> feat, off |-> off, loss |-> loss, alpha |-> quantile,
         params |-> MODEL_PARAMS, feature_names_in_ |-> DOMAIN X[1]]

FitTargetKeepsTargets(target, train_rows, globalState) ==
    LET X_train == [i \in 1..Len(train_rows) |-> train_rows[i]]
        y_train == [i \in 1..Len(train_rows) |-> train_rows[i][target]]
    IN  [lower |-> fit("quantile", 10, X_train, y_train, globalState),
         pred  |-> fit("squared_error", 90, X_train, y_train, globalState),
         upper |-> fit("quantile", 90, X_train, y_train, globalState)]

(* lines 179, 187-210: the three estimators of one target; alpha of the     *)
(* squared_error estimator is the default of the constructor, 0.9          *)
FitTarget(target, train_rows, globalState) ==
    LET X_train == [i \in 1..Len(train_rows) |->
                       [c \in (DOMAIN train_rows[i]) \ TargetSet |-> train_rows[i][c]]]
        y_train == [i \in 1..Len(train_rows) |-> train_rows[i][target]]
    IN  [lower |-> fit("quantile", 10, X_train, y_train, globalState),
         pred  |-> fit("squared_error", 90, X_train, y_train, globalState),
         upper |-> fit("quantile", 90, X_train, y_train, globalState)]

(* features.iloc[lo-1:hi]: the rows at the positions lo..hi *)
iloc(t, lo, hi) ==
    [columns |-> t.columns,
     index   |-> SubSeq(t.index, lo, hi),
     rows    |-> SubSeq(t.rows, lo, hi),
     src     |-> SubSeq(t.src, lo, hi)]

(* train_model(path_to_csv) on the file holding table t: the exception      *)
(* raised, the model set returned, the directory models/ as the call       *)
(* leaves it, the calls made, and the feature table with the two segments  *)
(* it was split into                                                       *)
train_model(t, order, globalState, dir) ==
    LET loaded == load_data(t, order) IN
    IF loaded.error # NoError
    THEN [error |-> loaded.error, models |-> None, dir |-> dir, calls |-> <<"load_data">>]
    ELSE LET made == make_features(loaded.df).features
             n    == train_size(Len(made.rows))
             train_data == iloc(made, 1, n)
             test_data  == iloc(made, n + 1, Len(made.rows))
         IN  IF n = 0
             THEN [error |-> "ValueError: Found array with 0 sample(s)", models |-> None,
                   dir |-> dir, calls |-> <<"load_data", "make_features", "fit">>]
             ELSE LET fitted == [target \in TargetSet |->
                                    FitTarget(target, train_data.rows, globalState)]
                  IN  [error |-> NoError, models |-> fitted, dir |-> fitted,
                       calls |-> <<"load_data", "make_features", "fit", "dump">>,
                       split |-> [features |-> made, train_data |-> train_data,
                                  test_data |-> test_data]]

LoadWhatExists(dir) == IF dir = NoDir THEN None ELSE dir

(* load_trained_models(): None when models/ or one of its nine files is     *)
(* absent                                                                  *)
load_trained_models(dir) ==
    IF dir = NoDir THEN None
    ELSE IF ~HasAllEstimators(dir) THEN None
    ELSE dir

-----------------------------------------------------------------------------
(* The shop of refactoring_task, before and after the refactoring.  Money  *)
(* is kept in cents and weight in tenths of a kilogram, so that the float  *)
(* arithmetic of the original and the Decimal arithmetic of the refactored *)
(* code are both integer arithmetic (rounding of floats is left out).  A   *)
(* product is a record [name, price, weight].                              *)

(* before_refactoring/ecommerce.py *)

REGULAR_CUSTOMER_TYPE == 0

PREMIUM_CUSTOMER_TYPE == 1

GOLD_CUSTOMER_TYPE == 2

RECURSIVE SumSeq(_)
SumSeq(s) == IF Len(s) = 0 THEN 0 ELSE s[1] + SumSeq(Tail(s))

Greater(a, b) == IF a >= b THEN a ELSE b

AddItemOnce(items, product, quantity) == Append(items, product)

(* Order.add_item: the product is appended quantity times *)
add_item(items, product, quantity) == items \o [i \in 1..quantity |-> product]

(* Order.total_price *)
total_price(items) == SumSeq([i \in 1..Len(items) |-> items[i].price])

(* Order.grand_total *)
grand_total(items) == SumSeq([i \in 1..Len(items) |-> items[i].price])

(* Customer.can_get_free_shipping *)
can_get_free_shipping(ctype) == ctype >= 1

(* Customer.get_loyalty_multiplier, in hundredths *)
get_loyalty_multiplier(ctype) ==
    IF ctype = GOLD_CUSTOMER_TYPE THEN 15
    ELSE IF ctype = PREMIUM_CUSTOMER_TYPE THEN 10
    ELSE 5

(* DiscountHelper.calc_loyalty_discount(order, customer), in hundredths of *)
(* a cent                                                                  *)
calc_loyalty_discount(items, ctype) ==
    LET num_items           == Len(items)
        base_price          == total_price(items)
        customer_multiplier == get_loyalty_multiplier(ctype)
        minimum_items       == IF ctype = GOLD_CUSTOMER_TYPE THEN 1
                               ELSE IF ctype = PREMIUM_CUSTOMER_TYPE THEN 2
                               ELSE 3
    IN  IF num_items >= minimum_items THEN base_price * customer_multiplier ELSE 0

AdvancedFreeAbove == 5000

GoldRate == 15

GoldRebate == 500

PremiumRate == 20

RegularRate == 25

RegularBase == 399

(* ShippingCalculator.calculate_advanced_shipping(order, customer) *)
calculate_advanced_shipping(items, ctype) ==
    LET total_weight == SumSeq([i \in 1..Len(items) |-> items[i].weight])
        base_price   == SumSeq([i \in 1..Len(items) |-> items[i].price])
    IN  IF can_get_free_shipping(ctype) /\ base_price > AdvancedFreeAbove THEN 0
        ELSE IF ctype = GOLD_CUSTOMER_TYPE
             THEN Greater(0, total_weight * GoldRate - GoldRebate)
        ELSE IF ctype = PREMIUM_CUSTOMER_TYPE THEN total_weight * PremiumRate
        ELSE total_weight * RegularRate + RegularBase

(* after_refactoring/ecommence.py *)

FREE_SHIPPING_THRESHOLD == 10000

LIGHT_PACKAGE_THRESHOLD == 10

MEDIUM_PACKAGE_THRESHOLD == 50

LIGHT_SHIPPING_COST == 599

MEDIUM_SHIPPING_COST == 999

HEAVY_SHIPPING_COST == 1599

PremiumFreeFrom == 5000

CustomerType == {"REGULAR", "PREMIUM", "GOLD"}

(* the customer_type of the original code for a CustomerType *)
TypeCode == [REGULAR |-> REGULAR_CUSTOMER_TYPE, PREMIUM |-> PREMIUM_CUSTOMER_TYPE,
             GOLD |-> GOLD_CUSTOMER_TYPE]

(* Weight.is_light, Weight.is_medium *)
is_light(kilograms) == kilograms < LIGHT_PACKAGE_THRESHOLD

is_medium(kilograms) == kilograms < MEDIUM_PACKAGE_THRESHOLD

(* CustomerType.loyalty_multiplier, in hundredths *)
loyalty_multiplier == [REGULAR |-> 5, PREMIUM |-> 10, GOLD |-> 15]

OneItemSuffices(ctype) == 1

(* CustomerType.min_items_for_loyalty *)
min_items_for_loyalty(ctype) == [REGULAR |-> 3, PREMIUM |-> 2, GOLD |-> 1][ctype]

(* Customer.qualifies_for_loyalty_discount *)
qualifies_for_loyalty_discount(ctype, item_count) ==
    item_count >= min_items_for_loyalty(ctype)

(* CustomerType.has_free_shipping_privilege *)
has_free_shipping_privilege(ctype) == ctype \in {"PREMIUM", "GOLD"}

(* Order.add_item: OrderItem(product, quantity) raises ValueError when the *)
(* quantity is not positive, and nothing is appended                       *)
Order_add_item(items, product, quantity) ==
    IF quantity <= 0 THEN [error |-> "ValueError: Quantity must be positive", items |-> items]
    ELSE [error |-> NoError, items |-> Append(items, [product |-> product, quantity |-> quantity])]

(* OrderCalculator.calculate_total_price, with OrderItem.total_price *)
calculate_total_price(items) ==
    IF Len(items) = 0 THEN 0
    ELSE SumSeq([i \in 1..Len(items) |-> items[i].product.price * items[i].quantity])

(* OrderCalculator.calculate_total_weight, with OrderItem.total_weight *)
calculate_total_weight(items) ==
    SumSeq([i \in 1..Len(items) |-> items[i].product.weight * items[i].quantity])

(* LoyaltyDiscountStrategy.calculate_discount(order_total, items,           *)
(* customer), in hundredths of a cent                                      *)
LoyaltyDiscountStrategy(order_total, items, ctype) ==
    LET total_items == SumSeq([i \in 1..Len(items) |-> items[i].quantity])
    IN  IF qualifies_for_loyalty_discount(ctype, total_items)
        THEN order_total * loyalty_multiplier[ctype]
        ELSE 0

(* StandardShippingStrategy.calculate_shipping *)
StandardShippingStrategy(order_total, total_weight) ==
    IF order_total >= FREE_SHIPPING_THRESHOLD THEN 0
    ELSE IF is_light(total_weight) THEN LIGHT_SHIPPING_COST
    ELSE IF is_medium(total_weight) THEN MEDIUM_SHIPPING_COST
    ELSE HEAVY_SHIPPING_COST

(* PremiumShippingStrategy._get_rate_for_customer_type *)
rates == [REGULAR |-> 25, PREMIUM |-> 20, GOLD |-> 15]

(* PremiumShippingStrategy.calculate_shipping *)
PremiumShippingStrategy(order_total, total_weight, ctype) ==
    IF has_free_shipping_privilege(ctype) /\ order_total >= PremiumFreeFrom THEN 0
    ELSE LET base_cost == total_weight * rates[ctype] IN
         IF ctype = "GOLD" THEN Greater(0, base_cost - GoldRebate) ELSE base_cost

(* ShippingCalculator.calculate_shipping(order_total, total_weight, customer) *)
calculate_shipping(order_total, total_weight, ctype) ==
    IF ctype \in {"PREMIUM", "GOLD"}
    THEN PremiumShippingStrategy(order_total, total_weight, ctype)
    ELSE StandardShippingStrategy(order_total, total_weight)

-----------------------------------------------------------------------------
(* Inputs *)

CsvCols == {"time", "temperature", "humidity", "pressure", "lat"}

Lat == 557

Reading(time, temperature, humidity, pressure, lat) ==
    [time |-> time, temperature |-> temperature, humidity |-> humidity,
     pressure |-> pressure, lat |-> lat]

(* the table read from a CSV file with the given columns and lines *)
CsvTable(cols, lines) ==
    [columns |-> cols,
     index   |-> [i \in 1..Len(lines) |-> i],
     rows    |-> [i \in 1..Len(lines) |-> [c \in cols |-> lines[i][c]]],
     src     |-> [i \in 1..Len(lines) |-> i]]

Times == FirstDay..(FirstDay + MaxTime - 1)

(* two readings inside the observed ranges *)
ReadingA(time) == Reading(time, 34, 960, 10208, Lat)

ReadingB(time) == Reading(time, 55, 730, 10288, Lat)

InRangeValues == [temperature |-> {34, 55}, humidity |-> {960, 730}, pressure |-> {10208, 10288}]

PlainCols == CsvCols \ {"lat"}

(* readings at the bounds of the ranges, one unit or one tenth outside them, *)
(* and missing: at most one field of a line is not a mid-range value       *)
ValidateReadings ==
    {Reading(0, v, 700, 10000, Lat) :
        v \in {100, TemperatureMin - 10, TemperatureMin - 1, TemperatureMin,
               TemperatureMax, TemperatureMax + 1, NaN}}
    \cup {Reading(0, 100, v, 10000, Lat) :
        v \in {HumidityMin - 1, HumidityMin, HumidityMax, HumidityMax + 1, NaN}}
    \cup {Reading(0, 100, 700, v, Lat) :
        v \in {PressureMin - 1, PressureMin, PressureMax, PressureMax + 1, NaN}}
    \cup {Reading(0, 100, 700, 10000, NaN)}

Dated(lines) == [i \in 1..Len(lines) |-> [lines[i] EXCEPT !.time = FirstDay + i - 1]]

ValidateTables ==
    {CsvTable(cols, Dated(lines)) :
        cols \in {CsvCols} \cup {CsvCols \ {c} : c \in CsvCols},
        lines \in SeqsUpTo(ValidateReadings, MaxValRows)}

(* tables of in-range readings (ReadingA and ReadingB in turn), in any      *)
(* order of the timestamps, with repeated timestamps                       *)
Alternating(times) ==
    [i \in 1..Len(times) |-> IF i % 2 = 1 THEN ReadingA(times[i]) ELSE ReadingB(times[i])]

FeatureTables == {CsvTable(PlainCols, Alternating(times)) : times \in SeqsUpTo(Times, MaxRows)}

(* the lines with the value of lat missing on the line at, if any *)
LatMissing(lines, at) ==
    [i \in 1..Len(lines) |-> [lines[i] EXCEPT !.lat = IF i = at THEN NaN ELSE Lat]]

(* readings of nine consecutive days: the least values on the first day and *)
(* the greatest on the second                                               *)
LongReadings ==
    <<Reading(FirstDay, 20, 410, 9990, Lat),     Reading(FirstDay + 1, 200, 950, 10320, Lat),
      Reading(FirstDay + 2, 34, 960 - 230, 10208, Lat), Reading(FirstDay + 3, 55, 800, 10288, Lat),
      Reading(FirstDay + 4, 34, 730, 10208, Lat), Reading(FirstDay + 5, 55, 800, 10288, Lat),
      Reading(FirstDay + 6, 41, 737, 10215, Lat), Reading(FirstDay + 7, 55, 800, 10288, Lat),
      Reading(FirstDay + 8, 48, 744, 10222, Lat)>>

(* the DataFrames a caller of make_features builds itself, indexed by time: *)
(* short ones in any order of the rows with at most one value of lat        *)
(* missing, and the first seven, eight and nine of LongReadings             *)
DirectTables ==
    {set_index_time(CsvTable(CsvCols, LatMissing(Alternating(times), at))) :
        times \in SeqsUpTo(Times, MaxRows), at \in 0..MaxRows}
    \cup {set_index_time(CsvTable(CsvCols, SubSeq(LongReadings, 1, n))) :
              n \in WINDOW..Len(LongReadings)}

(* two readings on consecutive days, the second on any day up to          *)
(* MaxSeasonDay (into the second year)                                      *)
SeasonalTables ==
    {CsvTable(PlainCols, Alternating(<<t - 1, t>>)) : t \in 1..MaxSeasonDay}

(* the same, every timestamp once *)
PredictTables == {t \in FeatureTables : \A i, j \in 1..Len(t.rows) :
                                            i # j => t.rows[i]["time"] # t.rows[j]["time"]}

(* a complete model set that follows the lag fields, and one whose bounds   *)
(* cross (low above high), as independent estimators may                   *)
LagModels ==
    [target \in TargetSet |->
        [lower |-> Estimator(LagCol[target], -5),
         pred  |-> Estimator(LagCol[target], 1),
         upper |-> Estimator(LagCol[target], 5)]]

CrossingModels ==
    [target \in TargetSet |->
        [lower |-> Estimator(RollingMaxCol[target], 2),
         pred  |-> Estimator(RollingMinCol[target], 0),
         upper |-> Estimator("const", 3)]]

WithoutEstimator(model, target, role) ==
    [model EXCEPT ![target] = [r \in (DOMAIN model[target]) \ {role} |-> model[target][r]]]

WithoutTarget(model, target) == [t \in (DOMAIN model) \ {target} |-> model[t]]

ModelSets ==
    {LagModels, CrossingModels}
    \cup {WithoutEstimator(LagModels, target, role) : target \in TargetSet, role \in Range(ROLES)}
    \cup {WithoutTarget(LagModels, target) : target \in TargetSet}

NotCalled == <<"not called">>

(* the confidence levels a call is made with: 0.9 and 0.95 *)
Alphas == {DefaultAlpha, 95}

(* the command lines of main: --alpha 0.9 and --alpha 1.5 *)
MainAlphas == {DefaultAlpha, 150}

(* --data is absent from the command line *)
NotGiven == [given |-> FALSE]

(* a reading below the temperature range, one above the pressure range and *)
(* one without humidity                                                    *)
BadReadings ==
    {Reading(0, TemperatureMin - 1, 700, 10000, Lat),
     Reading(0, 100, 700, PressureMax + 1, Lat),
     Reading(0, 100, NaN, 10000, Lat)}

(* the files main is run on: in-range readings at distinct timestamps (no  *)
(* line, two lines, three lines in order and out of order, four lines out  *)
(* of order), a file with one bad reading, and a file without the humidity *)
(* column                                                                  *)
MainFiles ==
    {CsvTable(PlainCols, Alternating(times)) :
        times \in {<<>>, <<FirstDay, FirstDay + 1>>, <<FirstDay, FirstDay + 1, FirstDay + 2>>,
                   <<FirstDay + 2, FirstDay, FirstDay + 1>>,
                   <<FirstDay + 3, FirstDay, FirstDay + 2, FirstDay + 1>>}}
    \cup {CsvTable(PlainCols, Dated(<<ReadingA(0), bad, ReadingB(0)>>)) : bad \in BadReadings}
    \cup {CsvTable(PlainCols \ {"humidity"}, Dated(<<ReadingA(0), ReadingB(0), ReadingA(0)>>))}

(* the files train_model is run on: in-range readings of four to six       *)
(* lines, in and out of order, also with a timestamp that occurs twice     *)
TrainFiles ==
    {CsvTable(PlainCols, Alternating(times)) :
        times \in {<<FirstDay + 3, FirstDay, FirstDay + 2, FirstDay + 1>>,
                   <<FirstDay + 5, FirstDay + 1, FirstDay, FirstDay + 4, FirstDay + 3,
                     FirstDay + 2>>,
                   <<FirstDay, FirstDay + 1, FirstDay + 2, FirstDay + 2>>}}

(* models/ before the first run: absent, complete, one file absent *)
StoredDirs == {NoDir, LagModels, WithoutEstimator(LagModels, "humidity", "upper")}

RngStates == 0..MaxRng

Product(name, price, weight) == [name |-> name, price |-> price, weight |-> weight]

(* the products of the tests: a book, a pen and an expensive product *)
Products == {Product("Book", 2500, 3), Product("Pen", 500, 1), Product("Expensive", 6000, 10)}

Quantities == (-1)..MaxQuantity

NotComputed == [computed |-> FALSE]

-----------------------------------------------------------------------------
(* The state machine *)

(* main has not been started *)
IdleMain ==
    /\ retrain = FALSE
    /\ pc = "idle"
    /\ modelsDir = NoDir
    /\ forecastCsv = NoFile
    /\ trace = <<>>
    /\ rng = 0
    /\ trainedModels = NotTrained
    /\ prevTrained = NotTrained

(* no order has been made *)
IdleShop ==
    /\ customer_type = "REGULAR"
    /\ itemsBefore = <<>>
    /\ itemsAfter = <<>>
    /\ calls = <<>>
    /\ shipping = NotComputed
    /\ totals = NotComputed
    /\ discount = NotComputed

InitWith(tables, modelSets, horizons) ==
    /\ csv \in tables
    /\ models \in modelSets
    /\ days \in horizons
    /\ alpha = DefaultAlpha
    /\ df = NoTable
    /\ features = NoTable
    /\ featuresIn = NoTable
    /\ prevFeatures = NoTable
    /\ prevIn = NoTable
    /\ forecast = NotCalled
    /\ prevForecast = NotCalled
    /\ argsBefore = <<>>
    /\ prevArgs = <<>>
    /\ steps = <<>>
    /\ error = NoError
    /\ last = "init"
    /\ IdleMain
    /\ IdleShop

(* validate_data(df) on the table read from the file *)
ValidateData ==
    /\ error' = validate_data(csv)
    /\ last' = "validate_data"
    /\ UNCHANGED <<mainVars, shopVars, alpha, csv, models, days, df, features, featuresIn, prevFeatures, prevIn,
                   forecast, prevForecast, argsBefore, prevArgs, steps>>

(* df = load_data(path_to_csv), until a table is loaded *)
LoadData ==
    /\ ~IsTable(df)
    /\ \E order \in (IF validate_data(csv) = NoError /\ "time" \in csv.columns
                  THEN SortOrders(Column(csv, "time")) ELSE {<<>>}) :
        \E r \in {load_data(csv, order)} :
        /\ error' = r.error
        /\ df' = r.df
    /\ last' = "load_data"
    /\ UNCHANGED <<mainVars, shopVars, alpha, csv, models, days, features, featuresIn, prevFeatures, prevIn,
                   forecast, prevForecast, argsBefore, prevArgs, steps>>

(* features = make_features(df) *)
MakeFeatures ==
    /\ IsTable(df)
    /\ \E r \in {make_features(df)} :
        /\ features' = r.features
        /\ featuresIn' = df
        /\ prevFeatures' = features
        /\ prevIn' = featuresIn
        /\ df' = r.df
    /\ error' = NoError
    /\ last' = "make_features"
    /\ UNCHANGED <<mainVars, shopVars, alpha, csv, models, days, forecast, prevForecast, argsBefore, prevArgs, steps>>

(* a reading of the loaded table is replaced by another in-range value,     *)
(* once, between two calls of make_features                                *)
MutateReading ==
    /\ IsTable(df)
    /\ last = "make_features"
    /\ prevIn = NoTable
    /\ \E i \in 1..Len(df.rows) : \E target \in TargetSet :
        \E v \in InRangeValues[target] \ {df.rows[i][target]} :
            df' = [df EXCEPT !.rows[i][target] = v]
    /\ last' = "mutate"
    /\ UNCHANGED <<mainVars, shopVars, alpha, csv, models, days, features, featuresIn, prevFeatures, prevIn,
                   forecast, prevForecast, argsBefore, prevArgs, steps, error>>

(* forecast = predict_days(models, df, days, alpha) *)
PredictDays ==
    /\ IsTable(df)
    /\ \E a \in Alphas : \E r \in {predict_days(models, df, days, a)} :
        /\ alpha' = a
        /\ forecast' = r.forecast
        /\ steps' = r.steps
        /\ error' = r.error
        /\ models' = r.model
        /\ df' = r.latest_rows_df
        /\ argsBefore' = <<models, df, days, a>>
    /\ prevForecast' = forecast
    /\ prevArgs' = argsBefore
    /\ last' = "predict_days"
    /\ UNCHANGED <<csv, days, features, featuresIn, prevFeatures, prevIn, mainVars, shopVars>>

(* The steps of main (lines 305-337).  An exception raised inside the try  *)
(* is logged and raised again (lines 335-337): the run ends at "raised".   *)

(* lines 306-311: parser.parse_args().  --data is required; --alpha is any *)
(* float, --days any int                                                   *)
ParseArgs ==
    /\ pc = "parse_args"
    /\ IF csv = NotGiven
       THEN pc' = "exit" /\ error' = "SystemExit"
       ELSE pc' = "load_trained_models" /\ error' = NoError
    /\ last' = "parse_args"
    /\ UNCHANGED <<csv, models, days, alpha, df, features, featuresIn, prevFeatures, prevIn,
                   forecast, prevForecast, argsBefore, prevArgs, steps,
                   retrain, modelsDir, forecastCsv, trace, rng, trainedModels, prevTrained,
                   shopVars>>

(* line 315: models = None if args.retrain else load_trained_models() *)
LoadTrainedModels ==
    /\ pc = "load_trained_models"
    /\ models' = IF retrain THEN None ELSE load_trained_models(modelsDir)
    /\ pc' = IF models' = None THEN "train_model" ELSE "load_data"
    /\ trace' = IF retrain THEN trace ELSE Append(trace, "load_trained_models")
    /\ last' = "load_trained_models"
    /\ UNCHANGED <<csv, days, alpha, df, features, featuresIn, prevFeatures, prevIn,
                   forecast, prevForecast, argsBefore, prevArgs, steps, error,
                   retrain, modelsDir, forecastCsv, rng, trainedModels, prevTrained,
                   shopVars>>

(* the row orders the sort of load_data may produce on the file *)
FileOrders(t) == IF "time" \in t.columns THEN SortOrders(Column(t, "time")) ELSE {<<>>}

(* lines 318-320: models, metrics = train_model(args.data) *)
TrainModel ==
    /\ pc = "train_model"
    /\ \E order \in FileOrders(csv) : \E r \in {train_model(csv, order, rng, modelsDir)} :
        /\ error' = r.error
        /\ models' = r.models
        /\ modelsDir' = r.dir
        /\ trace' = trace \o r.calls
        /\ pc' = IF r.error = NoError THEN "load_data" ELSE "raised"
        /\ IF r.error = NoError
           THEN /\ trainedModels' = [models |-> r.models, rng |-> rng, split |-> r.split]
                /\ prevTrained' = trainedModels
           ELSE UNCHANGED <<trainedModels, prevTrained>>
    /\ last' = "train_model"
    /\ UNCHANGED <<csv, days, alpha, df, features, featuresIn, prevFeatures, prevIn,
                   forecast, prevForecast, argsBefore, prevArgs, steps,
                   retrain, forecastCsv, rng, shopVars>>

(* line 325: latest_data = load_data(args.data) *)
LoadLatestData ==
    /\ pc = "load_data"
    /\ \E order \in FileOrders(csv) : \E r \in {load_data(csv, order)} :
        /\ error' = r.error
        /\ df' = r.df
        /\ pc' = IF r.error = NoError THEN "predict_days" ELSE "raised"
    /\ trace' = Append(trace, "load_data")
    /\ last' = "load_data"
    /\ UNCHANGED <<csv, models, days, alpha, features, featuresIn, prevFeatures, prevIn,
                   forecast, prevForecast, argsBefore, prevArgs, steps,
                   retrain, modelsDir, forecastCsv, rng, trainedModels, prevTrained,
                   shopVars>>

(* line 328: forecast = predict_days(models, latest_data, args.days, args.alpha) *)
Forecast ==
    /\ pc = "predict_days"
    /\ \E r \in {predict_days(models, df, days, alpha)} :
        /\ error' = r.error
        /\ forecast' = r.forecast
        /\ steps' = r.steps
        /\ models' = r.model
        /\ df' = r.latest_rows_df
        /\ pc' = IF r.error = NoError THEN "to_csv" ELSE "raised"
    /\ trace' = trace \o <<"make_features", "predict_days">>
    /\ last' = "predict_days"
    /\ UNCHANGED <<csv, days, alpha, features, featuresIn, prevFeatures, prevIn,
                   prevForecast, argsBefore, prevArgs,
                   retrain, modelsDir, forecastCsv, rng, trainedModels, prevTrained,
                   shopVars>>

(* lines 331-333: forecast.to_csv('forecast.csv') *)
SaveForecast ==
    /\ pc = "to_csv"
    /\ forecastCsv' = forecast
    /\ pc' = "done"
    /\ trace' = Append(trace, "to_csv")
    /\ last' = "to_csv"
    /\ UNCHANGED <<csv, models, days, alpha, df, features, featuresIn, prevFeatures, prevIn,
                   forecast, prevForecast, argsBefore, prevArgs, steps, error,
                   retrain, modelsDir, rng, trainedModels, prevTrained, shopVars>>

(* the script is started again on the same file, in a new process: the     *)
(* files stay, the flags and the state of the global generator are any     *)
Rerun ==
    /\ pc \in {"done", "raised", "exit"}
    /\ pc' = "parse_args"
    /\ retrain' \in BOOLEAN
    /\ alpha' \in MainAlphas
    /\ rng' \in RngStates
    /\ models' = None
    /\ df' = NoTable
    /\ forecast' = NotCalled
    /\ steps' = <<>>
    /\ error' = NoError
    /\ trace' = <<>>
    /\ last' = "start"
    /\ UNCHANGED <<csv, days, features, featuresIn, prevFeatures, prevIn,
                   prevForecast, argsBefore, prevArgs,
                   modelsDir, forecastCsv, trainedModels, prevTrained, shopVars>>

(* order.add_item(product, quantity) on the order of the original and on   *)
(* the order of the refactored code                                        *)
AddItem ==
    /\ Len(calls) < MaxCalls
    /\ \E product \in Products : \E quantity \in Quantities :
        \E r \in {Order_add_item(itemsAfter, product, quantity)} :
            /\ itemsBefore' = add_item(itemsBefore, product, quantity)
            /\ itemsAfter' = r.items
            /\ error' = r.error
            /\ calls' = Append(calls, <<product, quantity>>)
    /\ shipping' = NotComputed
    /\ totals' = NotComputed
    /\ discount' = NotComputed
    /\ last' = "add_item"
    /\ UNCHANGED <<csv, models, days, alpha, df, features, featuresIn, prevFeatures, prevIn,
                   forecast, prevForecast, argsBefore, prevArgs, steps, mainVars, customer_type>>

(* the shipping cost of the order by the ShippingCalculator of each version *)
CalculateShipping ==
    /\ shipping' =
           [computed |-> TRUE,
            before   |-> calculate_advanced_shipping(itemsBefore, TypeCode[customer_type]),
            after    |-> calculate_shipping(calculate_total_price(itemsAfter),
                                            calculate_total_weight(itemsAfter), customer_type)]
    /\ last' = "calculate_shipping"
    /\ UNCHANGED <<csv, models, days, alpha, df, features, featuresIn, prevFeatures, prevIn,
                   forecast, prevForecast, argsBefore, prevArgs, steps, error, mainVars,
                   customer_type, itemsBefore, itemsAfter, calls, totals, discount>>

(* the totals of the order by the methods of each version *)
TotalPrice ==
    /\ totals' = [computed    |-> TRUE,
                  total_price |-> total_price(itemsBefore),
                  grand_total |-> grand_total(itemsBefore),
                  refactored  |-> calculate_total_price(itemsAfter)]
    /\ last' = "total_price"
    /\ UNCHANGED <<csv, models, days, alpha, df, features, featuresIn, prevFeatures, prevIn,
                   forecast, prevForecast, argsBefore, prevArgs, steps, error, mainVars,
                   customer_type, itemsBefore, itemsAfter, calls, shipping, discount>>

(* the loyalty discount of the order by the DiscountHelper of the original *)
(* and by the LoyaltyDiscountStrategy of the refactored code               *)
LoyaltyDiscount ==
    /\ discount' =
           [computed |-> TRUE,
            before   |-> calc_loyalty_discount(itemsBefore, TypeCode[customer_type]),
            after    |-> LoyaltyDiscountStrategy(calculate_total_price(itemsAfter),
                                                 itemsAfter, customer_type)]
    /\ last' = "calc_loyalty_discount"
    /\ UNCHANGED <<csv, models, days, alpha, df, features, featuresIn, prevFeatures, prevIn,
                   forecast, prevForecast, argsBefore, prevArgs, steps, error, mainVars,
                   customer_type, itemsBefore, itemsAfter, calls, shipping, totals>>

Init == InitWith(PredictTables, ModelSets, (-1)..MaxDays)

Next == LoadData \/ PredictDays

Spec == Init /\ [][Next]_vars

InitValidate == InitWith(ValidateTables, {LagModels}, {1})

NextValidate == ValidateData \/ LoadData

SpecValidate == InitValidate /\ [][NextValidate]_vars

InitFeatures == InitWith(FeatureTables, {LagModels}, {1})

NextFeatures == LoadData \/ MakeFeatures \/ MutateReading

SpecFeatures == InitFeatures /\ [][NextFeatures]_vars

(* make_features(df) on a DataFrame that was not read by load_data *)
InitDirect ==
    /\ csv = NotGiven
    /\ df \in DirectTables
    /\ models = LagModels
    /\ days = 1
    /\ alpha = DefaultAlpha
    /\ features = NoTable
    /\ featuresIn = NoTable
    /\ prevFeatures = NoTable
    /\ prevIn = NoTable
    /\ forecast = NotCalled
    /\ prevForecast = NotCalled
    /\ argsBefore = <<>>
    /\ prevArgs = <<>>
    /\ steps = <<>>
    /\ error = NoError
    /\ last = "init"
    /\ IdleMain
    /\ IdleShop

NextDirect == MakeFeatures \/ MutateReading

SpecDirect == InitDirect /\ [][NextDirect]_vars

InitSeasonal == InitWith(SeasonalTables, {LagModels}, {1})

NextSeasonal == LoadData \/ MakeFeatures

SpecSeasonal == InitSeasonal /\ [][NextSeasonal]_vars

InitMain ==
    /\ csv \in MainFiles \cup {NotGiven}
    /\ days \in 1..MaxDays
    /\ alpha \in MainAlphas
    /\ retrain \in BOOLEAN
    /\ modelsDir \in StoredDirs
    /\ rng \in RngStates
    /\ pc = "parse_args"
    /\ models = None
    /\ df = NoTable
    /\ features = NoTable
    /\ featuresIn = NoTable
    /\ prevFeatures = NoTable
    /\ prevIn = NoTable
    /\ forecast = NotCalled
    /\ prevForecast = NotCalled
    /\ argsBefore = <<>>
    /\ prevArgs = <<>>
    /\ steps = <<>>
    /\ error = NoError
    /\ last = "start"
    /\ forecastCsv = NoFile
    /\ trace = <<>>
    /\ trainedModels = NotTrained
    /\ prevTrained = NotTrained
    /\ IdleShop

(* main on the files of TrainFiles *)
InitTrain ==
    /\ csv \in TrainFiles
    /\ days = 1
    /\ alpha = DefaultAlpha
    /\ retrain \in BOOLEAN
    /\ modelsDir \in StoredDirs
    /\ rng \in RngStates
    /\ pc = "parse_args"
    /\ models = None
    /\ df = NoTable
    /\ features = NoTable
    /\ featuresIn = NoTable
    /\ prevFeatures = NoTable
    /\ prevIn = NoTable
    /\ forecast = NotCalled
    /\ prevForecast = NotCalled
    /\ argsBefore = <<>>
    /\ prevArgs = <<>>
    /\ steps = <<>>
    /\ error = NoError
    /\ last = "start"
    /\ forecastCsv = NoFile
    /\ trace = <<>>
    /\ trainedModels = NotTrained
    /\ prevTrained = NotTrained
    /\ IdleShop

NextMain ==
    \/ ParseArgs
    \/ LoadTrainedModels
    \/ TrainModel
    \/ LoadLatestData
    \/ Forecast
    \/ SaveForecast
    \/ Rerun

SpecMain == InitMain /\ [][NextMain]_vars

SpecTrain == InitTrain /\ [][NextMain]_vars

InitShop ==
    /\ customer_type \in CustomerType
    /\ itemsBefore = <<>>
    /\ itemsAfter = <<>>
    /\ calls = <<>>
    /\ shipping = NotComputed
    /\ totals = NotComputed
    /\ discount = NotComputed
    /\ csv = NotGiven
    /\ models = None
    /\ days = 1
    /\ alpha = DefaultAlpha
    /\ df = NoTable
    /\ features = NoTable
    /\ featuresIn = NoTable
    /\ prevFeatures = NoTable
    /\ prevIn = NoTable
    /\ forecast = NotCalled
    /\ prevForecast = NotCalled
    /\ argsBefore = <<>>
    /\ prevArgs = <<>>
    /\ steps = <<>>
    /\ error = NoError
    /\ last = "init"
    /\ IdleMain

NextShop == AddItem \/ CalculateShipping \/ TotalPrice \/ LoyaltyDiscount

SpecShop == InitShop /\ [][NextShop]_vars

-----------------------------------------------------------------------------
(* Properties *)

MaxOf(S) == CHOOSE v \in S : \A w \in S : v >= w

CsvTimes == Range(Column(csv, "time"))

HasDuplicateTimes == \E i, j \in 1..Len(csv.rows) : i # j /\ csv.rows[i]["time"] = csv.rows[j]["time"]

(* C1: for a horizon h >= 1, a call of predict_days that returns returns     *)
(* exactly h rows in step order; the row of step k has target_date = the   *)
(* last timestamp of the table + k days, so the dates increase strictly    *)
(* and all are later than the last known timestamp.  With a complete model *)
(* set and a table of two readings or more the call does return.           *)
ThmC1_HorizonRowsAndDates ==
    (last = "predict_days" /\ days >= 1) =>
        /\ (HasAllEstimators(models) /\ Len(csv.rows) >= 2) => error = NoError
        /\ error = NoError =>
            /\ Len(forecast) = days
            /\ \A k \in 1..days : forecast[k]["target_date"] = MaxOf(CsvTimes) + k
            /\ \A k \in 1..days : forecast[k]["target_date"] > MaxOf(CsvTimes)
            /\ \A k \in 1..(days - 1) :
                   forecast[k]["target_date"] < forecast[k + 1]["target_date"]

WitC1_TwoStepsFromUnsortedFile ==
    /\ last = "predict_days"
    /\ error = NoError
    /\ days >= 2
    /\ Len(forecast) = days
    /\ csv.rows[Len(csv.rows)]["time"] # MaxOf(CsvTimes)

(* C2: a call of predict_days with a horizon <= 0 raises and returns no     *)
(* table.                                                                  *)
CexC2_NonPositiveHorizonRaises ==
    (last = "predict_days" /\ days <= 0) => (error # NoError /\ forecast = NoForecast)

(* C3: a call of predict_days with a model set that lacks an estimator      *)
(* (any target, any role) raises and returns no forecast row.              *)
CexC3_IncompleteModelSetRaises ==
    (last = "predict_days" /\ ~HasAllEstimators(models)) =>
        (error # NoError /\ forecast = NoForecast)

(* C4: a call of predict_days leaves the model set and the table as they    *)
(* were before it, and a call that follows one with the same arguments     *)
(* returns the same rows.                                                  *)
ThmC4_PredictDaysOnlyReads ==
    last = "predict_days" =>
        /\ <<models, df, days, alpha>> = argsBefore
        /\ prevArgs = argsBefore => (forecast = prevForecast)

WitC4_SecondCallSameRows ==
    /\ last = "predict_days"
    /\ prevArgs = argsBefore
    /\ error = NoError
    /\ Len(forecast) >= 2
    /\ forecast = prevForecast

TargetValueOutOfRange(t) ==
    \E i \in 1..Len(t.rows) :
        \/ Lt(t.rows[i]["temperature"], TemperatureMin) \/ Gt(t.rows[i]["temperature"], TemperatureMax)
        \/ Lt(t.rows[i]["humidity"], HumidityMin) \/ Gt(t.rows[i]["humidity"], HumidityMax)
        \/ Lt(t.rows[i]["pressure"], PressureMin) \/ Gt(t.rows[i]["pressure"], PressureMax)

RequiredPresent == Range(required_columns) \subseteq csv.columns

(* C5: validate_data raises the missing-columns error whenever the time     *)
(* column or a target column is absent, whatever the values of the columns *)
(* that are present: no range check comes before it.                       *)
ThmC5_MissingColumnRaisesFirst ==
    (last = "validate_data" /\ ~RequiredPresent) =>
        error = "ValueError: Missing required columns"

WitC5_MissingTimeAndValueOutOfRange ==
    /\ last = "validate_data"
    /\ "time" \notin csv.columns
    /\ TargetValueOutOfRange(csv)
    /\ error = "ValueError: Missing required columns"

WithoutRow(t, i) ==
    [columns |-> t.columns,
     index   |-> [k \in 1..(Len(t.rows) - 1) |-> k],
     rows    |-> [k \in 1..(Len(t.rows) - 1) |-> IF k < i THEN t.rows[k] ELSE t.rows[k + 1]],
     src     |-> [k \in 1..(Len(t.rows) - 1) |-> IF k < i THEN t.src[k] ELSE t.src[k + 1]]]

OneUnitBelowAt(t, i) ==
    /\ t.rows[i]["temperature"] = TemperatureMin - 10
    /\ ~TargetValueOutOfRange(WithoutRow(t, i))

(* C6: on a table with the required columns validate_data raises exactly    *)
(* when a temperature, humidity or pressure value lies outside its range   *)
(* (a value equal to a bound is accepted); a table whose only value out of *)
(* range is a temperature one unit below the minimum is rejected, and the  *)
(* table without that row is accepted.                                     *)
ThmC6_RejectsExactlyOutOfRange ==
    (last = "validate_data" /\ RequiredPresent) =>
        /\ (error # NoError) <=> TargetValueOutOfRange(csv)
        /\ \A i \in 1..Len(csv.rows) :
               OneUnitBelowAt(csv, i) =>
                   /\ error = "ValueError: Temperature values out of observed range"
                   /\ validate_data(WithoutRow(csv, i)) = NoError

WitC6_OneUnitBelowMinimum ==
    /\ last = "validate_data"
    /\ RequiredPresent
    /\ Len(csv.rows) = 2
    /\ OneUnitBelowAt(csv, 1)
    /\ csv.rows[2]["humidity"] = HumidityMax
    /\ error # NoError

TargetValueMissing(t) ==
    \E i \in 1..Len(t.rows) : \E c \in TargetSet \cap t.columns : isnull(t.rows[i][c])

(* C7, as stated: validate_data raises when a target value is missing.      *)
CexC7_ValidateRaisesOnMissingValue ==
    (last = "validate_data" /\ TargetValueMissing(csv)) => error # NoError

(* C7, amended: load_data raises and returns no table whenever a target     *)
(* value is missing in any row of the file.                                *)
ThmC7_LoadRaisesOnMissingValue ==
    (last = "load_data" /\ TargetValueMissing(csv)) => (error # NoError /\ ~IsTable(df))

WitC7_MissingValuePassesValidation ==
    /\ last = "load_data"
    /\ TargetValueMissing(csv)
    /\ validate_data(csv) = NoError
    /\ Len(csv.rows) = 2
    /\ error = "ValueError: Input data contains missing values"

(* C8: make_features on a table with two readings of the same timestamp     *)
(* raises and produces no feature table.                                   *)
CexC8_DuplicateTimestampsRejected ==
    (last = "make_features" /\ HasDuplicateTimes) => (error # NoError /\ ~IsTable(features))

(* the row of feature table f that comes from line line of the file *)
FeatureRowOf(f, line) ==
    LET at == {k \in 1..Len(f.rows) : f.src[k] = line} IN
    IF at = {} THEN <<"absent">> ELSE <<"row", f.rows[CHOOSE k \in at : TRUE]>>

AgreeUpTo(a, b, i) ==
    /\ i <= Len(a.rows) /\ i <= Len(b.rows)
    /\ \A k \in 1..i : a.index[k] = b.index[k] /\ a.rows[k] = b.rows[k] /\ a.src[k] = b.src[k]

DerivedOnly(r) ==
    IF r[1] = "absent" THEN r
    ELSE <<"row", [c \in RollingCols \cup LagCols \cup SeasonalCols |-> r[2][c]]>>

(* C10: when two tables agree on the rows up to i, the feature rows made    *)
(* for row i from the one and from the other have the same rolling         *)
(* mean/std/min/max, lag and seasonal values (or the row is absent from    *)
(* both), whatever the readings after row i.                               *)
ThmC10_FeaturesCausal ==
    (last = "make_features" /\ IsTable(prevIn)) =>
        \A i \in 1..Len(featuresIn.rows) :
            AgreeUpTo(prevIn, featuresIn, i) =>
                DerivedOnly(FeatureRowOf(prevFeatures, prevIn.src[i]))
                    = DerivedOnly(FeatureRowOf(features, featuresIn.src[i]))

WitC10_LaterReadingMutated ==
    /\ last = "make_features"
    /\ IsTable(prevIn)
    /\ Len(featuresIn.rows) = MaxRows
    /\ AgreeUpTo(prevIn, featuresIn, MaxRows - 1)
    /\ prevIn.rows[MaxRows] # featuresIn.rows[MaxRows]
    /\ FeatureRowOf(features, featuresIn.src[MaxRows - 1])[1] = "row"
    /\ features # prevFeatures

(* the columns of a feature table made from a table of the target columns *)
FeatureColumns == (TargetSet \cup AssignedCols) \ CalendarCols

(* C11: make_features on a table of zero rows returns a feature table of    *)
(* zero rows (with the feature columns) and raises no error.               *)
ThmC11_EmptyTableEmptyFeatures ==
    (last = "make_features" /\ Len(featuresIn.rows) = 0) =>
        /\ error = NoError
        /\ IsTable(features)
        /\ Len(features.rows) = 0
        /\ features.columns = FeatureColumns

WitC11_HeaderOnlyFile ==
    /\ last = "make_features"
    /\ Len(csv.rows) = 0
    /\ IsTable(featuresIn)
    /\ Len(featuresIn.rows) = 0
    /\ IsTable(features)

RowAt(t, line) == t.rows[CHOOSE k \in 1..Len(t.rows) : t.src[k] = line]

(* C12: make_features leaves the table it is given as it was (same rows,    *)
(* columns and values), and every row of the feature table carries, in the *)
(* columns of the input, the values of the input row with the same         *)
(* timestamp (the feature row made from it).  validate_data has no         *)
(* assignment to its argument, so the operator validate_data returns the   *)
(* error alone.                                                            *)
ThmC12_InputPreserved ==
    last = "make_features" =>
        /\ df = featuresIn
        /\ \A k \in 1..Len(features.rows) :
            /\ \E i \in 1..Len(featuresIn.rows) :
                /\ featuresIn.src[i] = features.src[k]
                /\ featuresIn.index[i] = features.index[k]
            /\ \A c \in featuresIn.columns :
                /\ c \in features.columns
                /\ features.rows[k][c] = RowAt(featuresIn, features.src[k])[c]

WitC12_FeatureRowsCarryReadings ==
    /\ last = "make_features"
    /\ df = featuresIn
    /\ Len(features.rows) = MaxRows - 1
    /\ features.rows[1]["temperature"] # features.rows[2]["temperature"]

(* C18: in every row of a feature table, whatever the timestamps, sin_month, *)
(* cos_month, sin_day and cos_day lie in [-1, 1] (in thousandths:          *)
(* [-1000, 1000]).                                                         *)
ThmC18_SeasonalInUnitRange ==
    last = "make_features" =>
        \A k \in 1..Len(features.rows) : \A c \in SeasonalCols :
            /\ c \in features.columns
            /\ -Unit <= features.rows[k][c]
            /\ features.rows[k][c] <= Unit

WitC18_ExtremesReached ==
    /\ last = "make_features"
    /\ Len(features.rows) = 1
    /\ features.index[1] > DaysInYear
    /\ features.rows[1]["sin_month"] = Unit
    /\ features.rows[1]["cos_day"] > 0

Width(point, target) == point[HighCol[target]] - point[LowCol[target]]

CexC16_LowPredHighOrdered ==
    (last = "predict_days" /\ error = NoError) =>
        \A k \in 1..Len(forecast) : \A target \in TargetSet :
            /\ forecast[k][LowCol[target]] <= forecast[k][PredCol[target]]
            /\ forecast[k][PredCol[target]] <= forecast[k][HighCol[target]]

(* the file fails validation or the missing-value check of load_data *)
DataInvalid(t) ==
    \/ ~(Range(required_columns) \subseteq t.columns)
    \/ TargetValueOutOfRange(t)
    \/ TargetValueMissing(t)

Occurs(call) == \E i \in 1..Len(trace) : trace[i] = call

(* C13: in every run of main, each construction of features comes after a  *)
(* load_data (which validates) of the same run with no other construction  *)
(* between them, and only on a file that passes validation; and on a file  *)
(* that fails validation or the missing-value check the run makes no       *)
(* feature table, fits and saves no model, writes no forecast, changes     *)
(* neither models/ nor forecast.csv, and ends with the ValueError raised.  *)
ThmC13_ValidationFirstFailFast ==
    /\ [](csv # NotGiven =>
            /\ \A i \in 1..Len(trace) :
                   trace[i] = "make_features" =>
                       /\ ~DataInvalid(csv)
                       /\ \E j \in 1..(i - 1) :
                           /\ trace[j] = "load_data"
                           /\ \A m \in (j + 1)..(i - 1) : trace[m] # "make_features"
            /\ DataInvalid(csv) =>
                /\ ~Occurs("make_features") /\ ~Occurs("fit") /\ ~Occurs("dump")
                /\ ~Occurs("predict_days") /\ ~Occurs("to_csv")
                /\ pc \in {"parse_args", "load_trained_models", "train_model", "load_data", "raised"}
                /\ pc = "raised" => error \in {"ValueError: Missing required columns",
                                               "ValueError: Temperature values out of observed range",
                                               "ValueError: Humidity values out of observed range",
                                               "ValueError: Pressure values out of observed range",
                                               "ValueError: Input data contains missing values"})
    /\ [][(csv # NotGiven /\ DataInvalid(csv)) =>
              /\ modelsDir' = modelsDir
              /\ forecastCsv' = forecastCsv
              /\ trainedModels' = trainedModels]_vars

WitC13_RetrainOnBadFileKeepsModels ==
    /\ csv # NotGiven
    /\ DataInvalid(csv)
    /\ pc = "raised"
    /\ retrain
    /\ trace = <<"load_data">>
    /\ modelsDir = LagModels
    /\ forecastCsv = NoFile

HeldOutRows ==
    IF csv = NotGiven \/ DataInvalid(csv) THEN {}
    ELSE LET order == CHOOSE o \in SortOrders(Column(csv, "time")) : TRUE
             made  == make_features(load_data(csv, order).df).features
         IN  {[c \in made.columns \ TargetSet |-> made.rows[k][c]] : k \in 1..Len(made.rows)}

(* C14: two calls of train_model on the same file return model sets whose  *)
(* estimators predict the same value on every feature row of the file,     *)
(* whatever the state of the global random generator and of models/ at     *)
(* each call.                                                              *)
ThmC14_TrainingDeterministic ==
    (trainedModels # NotTrained /\ prevTrained # NotTrained) =>
        \A target \in TargetSet : \A role \in Range(ROLES) : \A x \in HeldOutRows :
            predict(trainedModels.models[target][role], x)
                = predict(prevTrained.models[target][role], x)

WitC14_TrainedTwiceOtherGeneratorState ==
    /\ trainedModels # NotTrained
    /\ prevTrained # NotTrained
    /\ trainedModels.rng # prevTrained.rng
    /\ HeldOutRows # {}
    /\ last = "train_model"
    /\ modelsDir = trainedModels.models

(* C17: main called with --alpha 1.5 exits (SystemExit) in parse_args: the *)
(* run goes no further.                                                    *)
CexC17_AlphaOutOfRangeExits ==
    (csv # NotGiven /\ alpha > 100) => pc \in {"parse_args", "exit"}

(* C19: for every customer type and every order, the refactored            *)
(* ShippingCalculator.calculate_shipping returns the cost the original     *)
(* ShippingCalculator.calculate_advanced_shipping returns.                 *)
CexC19_ShippingPreserved ==
    shipping.computed => shipping.after = shipping.before

PositiveCalls == SelectSeq(calls, LAMBDA c : c[2] >= 1)

PriceOfCalls(cs) == SumSeq([i \in 1..Len(cs) |-> cs[i][1].price * cs[i][2]])

UnitsOfCalls(cs) == SumSeq([i \in 1..Len(cs) |-> cs[i][2]])

(* C21: in the original and in the refactored code the loyalty discount of *)
(* an order is the order total x the multiplier of the customer type       *)
(* (regular 0.05, premium 0.10, gold 0.15) when the order holds at least   *)
(* the minimum of units of the type (regular 3, premium 2, gold 1), and 0  *)
(* otherwise.                                                              *)
ThmC21_LoyaltyDiscountBothVersions ==
    discount.computed =>
        LET multiplier == [REGULAR |-> 5, PREMIUM |-> 10, GOLD |-> 15][customer_type]
            minimum    == [REGULAR |-> 3, PREMIUM |-> 2, GOLD |-> 1][customer_type]
            expected   == IF UnitsOfCalls(PositiveCalls) >= minimum
                          THEN PriceOfCalls(PositiveCalls) * multiplier
                          ELSE 0
        IN  /\ discount.before = expected
            /\ discount.after = expected

WitC21_RegularWithThreeUnits ==
    /\ discount.computed
    /\ customer_type = "REGULAR"
    /\ UnitsOfCalls(PositiveCalls) = 3
    /\ discount.before = 5500 * 5
    /\ discount.after = 5500 * 5

(* the last row of the feature table of the data the last call of          *)
(* predict_days was given                                                  *)
SeedRow ==
    LET made == make_features(argsBefore[2]).features
    IN  made.rows[Len(made.rows)]

Forecasted == last = "predict_days" /\ error = NoError

(* C22: within a step the three targets are predicted from the same input, *)
(* and the input of step k+1 has {target}_lag_1 equal to the central       *)
(* prediction {target}_pred of step k, for every target.                   *)
ThmC22_LagsFedFromCentralPrediction ==
    Forecasted =>
        /\ Len(steps) = Len(forecast)
        /\ \A k \in 1..Len(steps) : \A t, u \in TargetSet :
               steps[k].pred_features[t] = steps[k].pred_features[u]
        /\ \A k \in 1..(Len(steps) - 1) : \A t, u \in TargetSet :
               steps[k + 1].pred_features[u][LagCol[t]] = forecast[k][PredCol[t]]

WitC22_SecondDayFedFromFirst ==
    /\ Forecasted
    /\ Len(steps) = 2
    /\ \E seed \in {SeedRow} : \A t \in TargetSet :
        /\ forecast[1][PredCol[t]] # forecast[1][LowCol[t]]
        /\ forecast[1][PredCol[t]] # forecast[1][HighCol[t]]
        /\ forecast[1][PredCol[t]] # seed[t]
        /\ forecast[1][PredCol[t]] # seed[LagCol[t]]
    /\ \A t \in TargetSet : steps[2].pred_features[t][LagCol[t]] = forecast[1][PredCol[t]]

(* C23: at each step the model input is the current feature row without    *)
(* the three target columns, and {target}_low, {target}_pred and           *)
(* {target}_high of the row emitted are the outputs of the target's lower, *)
(* pred and upper estimator on that input, neither clipped nor reordered.  *)
ThmC23_EmittedAreEstimatorOutputs ==
    Forecasted =>
        \A k \in 1..Len(steps) : \A t \in TargetSet :
            LET x == steps[k].pred_features[t]
                current == steps[k].current_features
            IN  /\ DOMAIN x = (DOMAIN current) \ TargetSet
                /\ TargetSet \subseteq DOMAIN current
                /\ \A c \in DOMAIN x : x[c] = current[c]
                /\ forecast[k][LowCol[t]] = predict(argsBefore[1][t]["lower"], x)
                /\ forecast[k][PredCol[t]] = predict(argsBefore[1][t]["pred"], x)
                /\ forecast[k][HighCol[t]] = predict(argsBefore[1][t]["upper"], x)

WitC23_CrossingOutputsEmitted ==
    /\ Forecasted
    /\ Len(steps) = 2
    /\ \E t \in TargetSet :
        /\ forecast[2][LowCol[t]] > forecast[2][PredCol[t]]
        /\ forecast[2][PredCol[t]] > forecast[2][HighCol[t]]

(* C29: during the rollout only the three lag fields of the feature row    *)
(* change: in the model input of every step the seasonal encodings and the *)
(* rolling mean, std, min and max equal those of the last feature row, and *)
(* the input of step 1 is that row, its lag fields included.               *)
ThmC29_OnlyLagFieldsChange ==
    (Forecasted /\ Len(steps) >= 1) =>
        \A seed \in {SeedRow} :
            /\ \A k \in 1..Len(steps) : \A t \in TargetSet :
                   /\ SeasonalCols \cup RollingCols \subseteq DOMAIN steps[k].pred_features[t]
                   /\ \A c \in (DOMAIN steps[k].pred_features[t]) \ LagCols :
                          steps[k].pred_features[t][c] = seed[c]
            /\ steps[1].current_features = seed
            /\ \A t \in TargetSet : \A c \in LagCols :
                   steps[1].pred_features[t][c] = seed[c]

WitC29_LagsMovedRestKept ==
    /\ Forecasted
    /\ Len(steps) = 2
    /\ \E seed \in {SeedRow} :
        /\ \A c \in LagCols : steps[2].pred_features[SourceOf[c]][c] # seed[c]
        /\ \A c \in SeasonalCols \cup RollingCols :
               steps[2].pred_features["temperature"][c] = seed[c]
        /\ \E c \in RollingCols :
               KindOf[c] = "rolling_mean" /\ seed[c] # seed[SourceOf[c]] * MeanScale

(* C24, as stated: a table of n >= 1 readings without a missing target     *)
(* value gives a feature table of exactly the n - 1 rows 2..n, also when a *)
(* column that is not a target holds missing values.                       *)
CexC24_AllButFirstRowKept ==
    (last = "make_features" /\ Len(featuresIn.rows) >= 1) =>
        /\ Len(features.rows) = Len(featuresIn.rows) - 1
        /\ features.src = [k \in 1..(Len(featuresIn.rows) - 1) |-> k + 1]

(* the rows max(1, i - 6)..i *)
Trailing(i) == (IF i - 6 >= 1 THEN i - 6 ELSE 1)..i

RECURSIVE SumFromTo(_, _, _)
SumFromTo(s, lo, hi) == IF lo > hi THEN 0 ELSE s[lo] + SumFromTo(s, lo + 1, hi)

ReadingsBefore(at) == {j \in 1..Len(featuresIn.rows) : featuresIn.index[j] < at}

IsPredecessor(j, at) ==
    /\ j \in ReadingsBefore(at)
    /\ \A l \in ReadingsBefore(at) : featuresIn.index[l] <= featuresIn.index[j]

(* C25, as stated: whatever the order of the rows of the file, the         *)
(* timestamps of the feature table are strictly increasing and the         *)
(* {target}_lag_1 of each row is the target value of the reading that      *)
(* precedes it in time.                                                    *)
CexC25_StrictlyIncreasingLagOfPredecessor ==
    last = "make_features" =>
        /\ \A k \in 1..(Len(features.rows) - 1) : features.index[k] < features.index[k + 1]
        /\ \A k \in 1..Len(features.rows) :
               \E j \in 1..Len(featuresIn.rows) :
                   /\ IsPredecessor(j, features.index[k])
                   /\ \A t \in TargetSet :
                          features.rows[k][LagCol[t]] = featuresIn.rows[j][t]

(* C27: the model set train_model returns has, for each of temperature,    *)
(* humidity and pressure, exactly the estimators lower (quantile 0.1),     *)
(* pred (squared error) and upper (quantile 0.9), all with the same        *)
(* hyperparameters and seed, each fitted on the feature columns without    *)
(* the three target columns.                                               *)
ThmC27_ThreeEstimatorsPerTarget ==
    (last = "train_model" /\ error = NoError) =>
        /\ DOMAIN models = TargetSet
        /\ \A t \in TargetSet :
            /\ DOMAIN models[t] = {"lower", "pred", "upper"}
            /\ models[t]["lower"].loss = "quantile" /\ models[t]["lower"].alpha = 10
            /\ models[t]["pred"].loss = "squared_error"
            /\ models[t]["upper"].loss = "quantile" /\ models[t]["upper"].alpha = 90
            /\ \A role \in DOMAIN models[t] :
                /\ models[t][role].params = models["temperature"]["pred"].params
                /\ models[t][role].params.random_state = 42
                /\ models[t][role].feature_names_in_ = FeatureColumns \ TargetSet

WitC27_TrainedOnFourLines ==
    /\ last = "train_model"
    /\ error = NoError
    /\ Len(csv.rows) = 4
    /\ models = trainedModels.models
    /\ models["humidity"]["lower"].off < models["humidity"]["upper"].off
    /\ "temperature_lag_1" \in models["pressure"]["pred"].feature_names_in_

(* C28, as stated: the training segment is the first floor(0.8 x n) rows   *)
(* of the feature table and the held-out segment the rest, the two cover   *)
(* the table in order without a common row, and the timestamp of every     *)
(* training row precedes the timestamp of every held-out row.              *)
CexC28_SplitChronological ==
    (last = "train_model" /\ error = NoError) =>
        LET all   == trainedModels.split.features
            train == trainedModels.split.train_data
            test  == trainedModels.split.test_data
        IN  /\ 10 * Len(train.rows) <= 8 * Len(all.rows)
            /\ 8 * Len(all.rows) < 10 * (Len(train.rows) + 1)
            /\ train.src \o test.src = all.src
            /\ train.rows \o test.rows = all.rows
            /\ Range(train.src) \cap Range(test.src) = {}
            /\ \A i \in 1..Len(train.rows) : \A j \in 1..Len(test.rows) :
                   train.index[i] < test.index[j]

(* a model set with the lower, pred and upper estimator of each target *)
Complete(set) ==
    /\ set # None
    /\ DOMAIN set = TargetSet
    /\ \A t \in TargetSet : DOMAIN set[t] = {"lower", "pred", "upper"}

(* models/ is absent or lacks the file of an estimator *)
FileAbsent ==
    \/ modelsDir = NoDir
    \/ \E t \in TargetSet : \E role \in {"lower", "pred", "upper"} :
           t \notin DOMAIN modelsDir \/ role \notin DOMAIN modelsDir[t]

(* C30: load_trained_models returns None or a model set with the three     *)
(* estimators of each of the three targets, never a part of one; the model *)
(* set main hands to predict_days is complete; and main trains a new set   *)
(* exactly when --retrain is given or load_trained_models returned None.   *)
ThmC30_LoadAllOrNothing ==
    /\ (last = "load_trained_models" /\ ~retrain) =>
           /\ models = None \/ Complete(models)
           /\ models = None <=> FileAbsent
           /\ Complete(models) => models = modelsDir
    /\ last = "load_trained_models" =>
           /\ pc = "train_model" <=> (retrain \/ models = None)
           /\ pc = "train_model" <=> (retrain \/ FileAbsent)
           /\ pc \in {"train_model", "load_data"}
    /\ (last = "train_model" /\ error = NoError) => Occurs("fit") /\ Complete(models)
    /\ (Occurs("fit") /\ ~retrain) => Occurs("load_trained_models")
    /\ pc = "predict_days" => Complete(models)
    /\ Occurs("predict_days") => Complete(models)

WitC30_PartialDirectoryGivesNone ==
    /\ last = "load_trained_models"
    /\ ~retrain
    /\ modelsDir # NoDir
    /\ "humidity" \in DOMAIN modelsDir
    /\ "upper" \notin DOMAIN modelsDir["humidity"]
    /\ models = None
    /\ pc = "train_model"

====
